---- MODULE Spec2Model ----
(***************************************************************************)
(* electrsd: launching, probing and terminating an electrs child process.  *)
(*                                                                         *)
(* The model follows src/src/lib.rs (unix build, cfg(not(target_os =       *)
(* "windows"))).  ElectrsD::with_conf is a recursive function: every retry  *)
(* is a new frame that runs the whole body again.  A launch l is one        *)
(* top-level call of with_conf; depth[l] is the number of frames it has     *)
(* opened, i.e. the number of the current attempt.  The operating system,   *)
(* the child process, the upstream node and other programs on the machine   *)
(* are the environment: their choices are nondeterministic.                 *)
(***************************************************************************)
EXTENDS Integers, Sequences, FiniteSets, TLC

\* ------------------------------------------------------------------ bounds
\* Number of ephemeral ports the operating system can hand out.
NPorts == 3
\* Largest number of explicit kill() calls the caller makes on one handle.
MaxKills == 2
\* Largest number of launches the caller makes with one configuration.
MaxLaunches == 2
\* Greatest height the chain reaches.
MaxHeight == 2

\* ------------------------------------------------------------- constants
\* Conf::default().attempts.  The field is private and Conf is
\* non_exhaustive: a caller obtains a Conf from Conf::default() only, and the
\* retries count it down, so with_conf sees the values 0..DefaultAttempts.
DefaultAttempts == 3
\* for _ in 0..600 of wait_height and of wait_tx
wait_height_attempts == 600
wait_tx_attempts == 600

Launch == {1, 2}
Ports == 1..NPorts
NoPort == 0
\* listener[p] is Free or the launch whose current child has bound p.  Other
\* programs of the machine bind and release ports at any time: what they
\* hold is not state of the model, it is a choice made where the harness
\* looks (Third is such a program answering a connection).
Free == 0
Third == 9
Refused == <<0, 0>>

ConfSet == [tmpdir : BOOLEAN, staticdir : BOOLEAN, http_enabled : BOOLEAN,
            attempts : 0..DefaultAttempts]
DefaultConf == [tmpdir |-> FALSE, staticdir |-> FALSE, http_enabled |-> FALSE,
                attempts |-> DefaultAttempts]

NoHandle == [present |-> FALSE]

\* No waiter has been called.  fn is the waiter, arg its argument (the height,
\* or the number of outputs of the transaction that txid names), i the number
\* of iterations of its loop begun so far, got what ended it, slept whether
\* every iteration that did not end it was followed by a sleep.
NoWaiter == [fn |-> "none", pc |-> "idle", arg |-> 0, i |-> 0,
             got |-> "none", slept |-> TRUE]
\* The server has the genesis block only and has not seen the transaction.
EmptyIndex == [tip |-> 0, tx |-> "unknown"]
IndexSet == [tip : 0..MaxHeight, tx : {"unknown", "known", "indexed"}]

\* An environment variable is unset, set to valid Unicode, or set to bytes
\* that are not valid Unicode.
VarStates == {"unset", "unicode", "not_unicode"}
\* What exe_path depends on: ELECTRS_EXEC, ELECTRS_EXE, versions::HAS_FEATURE,
\* ELECTRSD_SKIP_DOWNLOAD, and whether PATH holds an electrs.
EnvSet == [ELECTRS_EXEC : VarStates, ELECTRS_EXE : VarStates,
           HAS_FEATURE : BOOLEAN, ELECTRSD_SKIP_DOWNLOAD : VarStates,
           in_PATH : BOOLEAN]
CleanEnv == [ELECTRS_EXEC |-> "unset", ELECTRS_EXE |-> "unset",
             HAS_FEATURE |-> TRUE, ELECTRSD_SKIP_DOWNLOAD |-> "unset",
             in_PATH |-> FALSE]

VARIABLES
    active,        \* the launches of this run
    conf,          \* conf[l]: the Conf the caller passed to with_conf
    fconf,         \* fconf[l]: the Conf of the current frame (a clone)
    pc,            \* pc[l]: position of the current frame of with_conf
    depth,         \* depth[l]: number of frames opened = attempt number
    work_dir,      \* work_dir[l]: DataDir kind of the current frame
    tmpdirs,       \* tmpdirs[l]: TempDirs of this launch that exist on disk
    staticdir,     \* staticdir[l]: conf.staticdir exists on disk
    ports,         \* ports[l]: <<electrum, monitoring, http>> given to the
                   \*   latest child of the launch
    usedPorts,     \* usedPorts[l]: ports handed to earlier attempts
    allocs,        \* allocs[l]: get_available_port calls made so far
    spawned,       \* spawned[l]: children spawned so far
    process,       \* process[l]: state of the current frame's child
    listener,      \* listener[p]: who listens on port p
    result,        \* result[l]: what with_conf returned
    handle,        \* handle[l]: the ElectrsD returned, if any
    upcalls,       \* upcalls[l]: state-changing RPCs issued to tapyrusd
    op,            \* op[l]: handle operation blocked in process.wait()
    killResults,   \* killResults[l]: what each explicit kill() returned
    signals,       \* signals[l]: signals issued through the handle
    dropped,       \* dropped[l]: "no", or what the kill() inside drop gave
    pidReused,     \* pidReused[l]: the reaped child's pid belongs to another
    panicked,      \* panicked[l]: the calling thread panicked
    p2p_socket,    \* tapyrusd.params.p2p_socket is Some
    launched,      \* launched[l]: top-level with_conf calls made with conf[l]
    waiter,        \* the call of wait_height or wait_tx in progress
    index,         \* what the electrum server at the end of client has indexed
    env,           \* the environment variables and the build exe_path reads
    exe            \* what exe_path returned

vars == <<active, conf, fconf, pc, depth, work_dir, tmpdirs, staticdir, ports,
          usedPorts, allocs, spawned, process, listener, result, handle,
          upcalls, op, killResults, signals, dropped, pidReused, panicked,
          p2p_socket, launched, waiter, index, env, exe>>

launchVars == <<pc, depth, fconf, work_dir, tmpdirs, staticdir, ports,
                usedPorts, allocs, spawned, result, handle, upcalls>>
handleVars == <<op, killResults, signals, dropped>>
\* what the caller does around a launch and with the handle, and what a
\* launch only reads
callerVars == <<p2p_socket, launched, waiter, index, env, exe>>

\* ---------------------------------------------------------------- helpers
FreePorts == {p \in Ports : listener[p] = Free}

PortSet(t) == {t[1], t[2], t[3]} \ {NoPort}

\* format!("0.0.0.0:{}", port)
Url(p) == <<"0.0.0.0", p>>
NoUrl == <<"None">>

\* ------------------------------------------------------------------- Init
InitWith(act, confs) ==
    /\ active = act
    /\ conf \in [Launch -> confs]
    /\ \A l \in Launch \ act : conf[l] = DefaultConf
    /\ fconf = conf
    /\ pc = [l \in Launch |-> IF l \in act THEN "start" ELSE "unused"]
    /\ depth = [l \in Launch |-> IF l \in act THEN 1 ELSE 0]
    /\ work_dir = [l \in Launch |-> "none"]
    /\ tmpdirs = [l \in Launch |-> 0]
    /\ staticdir = [l \in Launch |-> FALSE]
    /\ ports = [l \in Launch |-> <<NoPort, NoPort, NoPort>>]
    /\ usedPorts = [l \in Launch |-> {}]
    /\ allocs = [l \in Launch |-> 0]
    /\ spawned = [l \in Launch |-> 0]
    /\ process = [l \in Launch |-> "none"]
    /\ listener = [p \in Ports |-> Free]
    /\ result = [l \in Launch |-> "none"]
    /\ handle = [l \in Launch |-> NoHandle]
    /\ upcalls = [l \in Launch |-> {}]
    /\ op = [l \in Launch |-> "none"]
    /\ killResults = [l \in Launch |-> <<>>]
    /\ signals = [l \in Launch |-> <<>>]
    /\ dropped = [l \in Launch |-> "no"]
    /\ pidReused = [l \in Launch |-> FALSE]
    /\ panicked = [l \in Launch |-> FALSE]
    /\ p2p_socket \in BOOLEAN
    /\ launched = [l \in Launch |-> IF l \in act THEN 1 ELSE 0]

\* The caller has called no waiter and exe_path has returned the downloaded
\* executable.
CallerIdle ==
    /\ waiter = NoWaiter
    /\ index = EmptyIndex
    /\ env = CleanEnv
    /\ exe = <<"Ok", "downloaded">>

Init == InitWith({1}, ConfSet) /\ CallerIdle

\* ---------------------------------------------------------- with_conf
\* A frame returns Err (or unwinds by panic): every frame of the launch
\* returns the same error, and each drops its locals: the TempDirs are
\* removed, the Child values are dropped, which neither kills nor waits.
ReturnErr(l, e) ==
    /\ pc' = [pc EXCEPT ![l] = "returned"]
    /\ result' = [result EXCEPT ![l] = e]
    /\ tmpdirs' = [tmpdirs EXCEPT ![l] = 0]
    /\ usedPorts' = [usedPorts EXCEPT ![l] = {}]

\* lines 154-170: getblockchaininfo, and the nudge out of initial block
\* download.
with_conf_ibd(l) ==
    /\ pc[l] = "start"
    /\ \E o \in {"rpc_err", "synced", "addr_err", "generate_err", "nudged"} :
        CASE o = "rpc_err" ->
               /\ ReturnErr(l, "TapyrusCoreRpc")
               /\ UNCHANGED <<upcalls, panicked>>
          [] o = "synced" ->
               /\ pc' = [pc EXCEPT ![l] = "work_dir"]
               /\ UNCHANGED <<result, tmpdirs, usedPorts, upcalls, panicked>>
          [] o = "addr_err" ->
               /\ ReturnErr(l, "TapyrusCoreRpc")
               /\ upcalls' = [upcalls EXCEPT ![l] = @ \cup {"getnewaddress"}]
               /\ UNCHANGED panicked
          [] o = "generate_err" ->
               /\ ReturnErr(l, "panic")
               /\ upcalls' = [upcalls EXCEPT
                     ![l] = @ \cup {"getnewaddress", "generatetoaddress"}]
               /\ panicked' = [panicked EXCEPT ![l] = TRUE]
          [] o = "nudged" ->
               /\ pc' = [pc EXCEPT ![l] = "work_dir"]
               /\ upcalls' = [upcalls EXCEPT
                     ![l] = @ \cup {"getnewaddress", "generatetoaddress"}]
               /\ UNCHANGED <<result, tmpdirs, usedPorts, panicked>>
    /\ UNCHANGED <<callerVars, active, conf, fconf, depth, work_dir, staticdir, ports,
                   allocs, spawned, process, listener, handle, pidReused>>
    /\ UNCHANGED handleVars

\* DataDirOf without the (Some(_), Some(_)) arm: tmpdir wins.
DataDirOf_NoConflict(c) ==
    IF c.staticdir /\ ~c.tmpdir THEN "Persistent" ELSE "Temporary"

\* lines 174-185: the kind of work directory the configuration asks for.
DataDirOf(c) ==
    CASE c.tmpdir /\ c.staticdir -> "BothDirsSpecified"
      [] c.tmpdir /\ ~c.staticdir -> "Temporary"
      [] ~c.tmpdir /\ c.staticdir -> "Persistent"
      [] OTHER -> "Temporary"

\* with_conf whose retry runs in the TempDir of the attempt before.
with_conf_work_dir_shared(l) ==
    /\ pc[l] = "work_dir"
    /\ LET k == DataDirOf(fconf[l]) IN
       \/ /\ k = "BothDirsSpecified"
          /\ ReturnErr(l, "BothDirsSpecified")
          /\ UNCHANGED <<work_dir, staticdir>>
       \/ /\ k = "Temporary"
          /\ pc' = [pc EXCEPT ![l] = "spawn"]
          /\ work_dir' = [work_dir EXCEPT ![l] = "Temporary"]
          /\ tmpdirs' = [tmpdirs EXCEPT ![l] = IF depth[l] > 1 THEN @ ELSE @ + 1]
          /\ UNCHANGED <<result, staticdir, usedPorts>>
       \/ /\ k = "Persistent"
          /\ pc' = [pc EXCEPT ![l] = "spawn"]
          /\ work_dir' = [work_dir EXCEPT ![l] = "Persistent"]
          /\ staticdir' = [staticdir EXCEPT ![l] = TRUE]
          /\ UNCHANGED <<result, tmpdirs, usedPorts>>
    /\ UNCHANGED <<callerVars, active, conf, fconf, depth, ports, allocs, spawned,
                   process, listener, handle, upcalls, pidReused, panicked>>
    /\ UNCHANGED handleVars

\* lines 172-189: resolve and create the work directory.
with_conf_work_dir(l) ==
    /\ pc[l] = "work_dir"
    /\ LET k == DataDirOf(fconf[l]) IN
       \/ /\ k = "BothDirsSpecified"
          /\ ReturnErr(l, "BothDirsSpecified")
          /\ UNCHANGED <<work_dir, staticdir>>
       \/ /\ k = "Temporary"
          /\ \/ /\ pc' = [pc EXCEPT ![l] = "spawn"]
                /\ work_dir' = [work_dir EXCEPT ![l] = "Temporary"]
                /\ tmpdirs' = [tmpdirs EXCEPT ![l] = @ + 1]
                /\ UNCHANGED <<result, staticdir, usedPorts>>
             \/ /\ ReturnErr(l, "Io")
                /\ UNCHANGED <<work_dir, staticdir>>
       \/ /\ k = "Persistent"
          /\ \/ /\ pc' = [pc EXCEPT ![l] = "spawn"]
                /\ work_dir' = [work_dir EXCEPT ![l] = "Persistent"]
                /\ staticdir' = [staticdir EXCEPT ![l] = TRUE]
                /\ UNCHANGED <<result, tmpdirs, usedPorts>>
             \/ /\ ReturnErr(l, "Io")
                /\ UNCHANGED <<work_dir, staticdir>>
    /\ UNCHANGED <<callerVars, active, conf, fconf, depth, ports, allocs, spawned,
                   process, listener, handle, upcalls, pidReused, panicked>>
    /\ UNCHANGED handleVars

\* lines 235-253: the ports of one attempt, <<electrum, monitoring, http>>,
\* drawn from the ports that are free.  get_available_port binds port 0,
\* reads the number and closes the socket: the port is not booked, so two
\* calls may return the same number.
get_available_ports(free, http) ==
    {<<e, m, IF http THEN h ELSE NoPort>> : e \in free, m \in free, h \in free}

\* with_conf_spawn with the ports computed once per launch: a retry spawns
\* the child on the ports of the attempt before, without asking for new ones.
with_conf_spawn_reuse(l) ==
    /\ pc[l] = "spawn"
    /\ \/ /\ ~p2p_socket
          /\ ReturnErr(l, "panic")
          /\ panicked' = [panicked EXCEPT ![l] = TRUE]
          /\ UNCHANGED <<ports, allocs, process, spawned>>
       \/ /\ p2p_socket
          /\ ReturnErr(l, "Tapyrusd")
          /\ UNCHANGED <<ports, allocs, process, spawned, panicked>>
       \/ \E t \in IF depth[l] > 1 THEN {ports[l]}
                   ELSE get_available_ports(FreePorts, fconf[l].http_enabled) :
          /\ p2p_socket
          /\ UNCHANGED panicked
          /\ ports' = [ports EXCEPT ![l] = t]
          /\ allocs' = [allocs EXCEPT
                ![l] = IF depth[l] > 1 THEN @
                       ELSE @ + IF fconf[l].http_enabled THEN 3 ELSE 2]
          /\ \/ /\ pc' = [pc EXCEPT ![l] = "try_wait"]
                /\ process' = [process EXCEPT ![l] = "starting"]
                /\ spawned' = [spawned EXCEPT ![l] = @ + 1]
                /\ UNCHANGED <<result, tmpdirs, usedPorts>>
             \/ /\ ReturnErr(l, "Io")
                /\ UNCHANGED <<process, spawned>>
    /\ UNCHANGED <<callerVars, active, conf, fconf, depth, work_dir, staticdir,
                   listener, handle, upcalls, pidReused>>
    /\ UNCHANGED handleVars

\* lines 187-266: build the arguments, allocate the ports, then
\* Command::spawn.  In a build without the electrs_0_5_0, electrs_0_5_1 and
\* legacy features the arguments need tapyrusd's p2p address, and
\* p2p_socket.expect(..) panics when there is none.
with_conf_spawn(l) ==
    /\ pc[l] = "spawn"
    /\ \/ \* p2p_socket is None
          /\ ~p2p_socket
          /\ ReturnErr(l, "panic")
          /\ panicked' = [panicked EXCEPT ![l] = TRUE]
          /\ UNCHANGED <<ports, allocs, process, spawned>>
       \/ \* get_available_port fails
          /\ p2p_socket
          /\ ReturnErr(l, "Tapyrusd")
          /\ UNCHANGED <<ports, allocs, process, spawned, panicked>>
       \/ \E t \in get_available_ports(FreePorts, fconf[l].http_enabled) :
          /\ p2p_socket
          /\ UNCHANGED panicked
          /\ ports' = [ports EXCEPT ![l] = t]
          /\ allocs' = [allocs EXCEPT
                ![l] = @ + IF fconf[l].http_enabled THEN 3 ELSE 2]
          /\ \/ /\ pc' = [pc EXCEPT ![l] = "try_wait"]
                /\ process' = [process EXCEPT ![l] = "starting"]
                /\ spawned' = [spawned EXCEPT ![l] = @ + 1]
                /\ UNCHANGED <<result, tmpdirs, usedPorts>>
             \/ \* spawn fails
                /\ ReturnErr(l, "Io")
                /\ UNCHANGED <<process, spawned>>
    /\ UNCHANGED <<callerVars, active, conf, fconf, depth, work_dir, staticdir,
                   listener, handle, upcalls, pidReused>>
    /\ UNCHANGED handleVars

\* The retry started from Conf::default() instead of a clone of conf.
RetryConf_Default(c) == [DefaultConf EXCEPT !.attempts = c.attempts - 1]

\* lines 272-273: the Conf of the retry.
RetryConf(c) == [c EXCEPT !.attempts = c.attempts - 1]

\* The retry taken whatever the budget.
MayRetry_Always(c) == TRUE

\* The budget test off by one.
MayRetry_OffByOne(c) == c.attempts > 1

\* line 270: is there budget for another attempt?
MayRetry(c) == c.attempts > 0

\* lines 269-280: the exit check of the readiness loop, and the retry.
with_conf_try_wait(l) ==
    /\ pc[l] = "try_wait"
    /\ \/ \* try_wait() fails
          /\ ReturnErr(l, "Io")
          /\ UNCHANGED <<process, fconf, depth, ports, work_dir>>
       \/ \* Some(status): the child has exited
          /\ process[l] = "exited"
          /\ process' = [process EXCEPT ![l] = "reaped"]
          /\ IF MayRetry(fconf[l])
             THEN /\ fconf' = [fconf EXCEPT ![l] = RetryConf(fconf[l])]
                  /\ depth' = [depth EXCEPT ![l] = @ + 1]
                  /\ usedPorts' = [usedPorts EXCEPT
                        ![l] = @ \cup PortSet(ports[l])]
                  /\ work_dir' = [work_dir EXCEPT ![l] = "none"]
                  /\ pc' = [pc EXCEPT ![l] = "start"]
                  /\ UNCHANGED <<result, tmpdirs, ports>>
             ELSE /\ ReturnErr(l, "EarlyExit")
                  /\ UNCHANGED <<fconf, depth, ports, work_dir>>
       \/ \* None: the child is still running
          /\ process[l] \in {"starting", "listening"}
          /\ pc' = [pc EXCEPT ![l] = "connect"]
          /\ UNCHANGED <<process, fconf, depth, usedPorts, ports, work_dir,
                         result, tmpdirs>>
    /\ UNCHANGED <<callerVars, active, conf, staticdir, allocs, spawned, listener, handle,
                   upcalls, pidReused, panicked>>
    /\ UNCHANGED handleVars

\* lines 287-293: the ElectrsD the launch returns; peer is the program the
\* client's connection reached.
NewElectrsD(l, peer) ==
    [present |-> TRUE,
     process |-> <<l, depth[l]>>,
     client |-> peer,
     work_dir |-> work_dir[l],
     electrum_url |-> Url(ports[l][1]),
     esplora_url |-> IF fconf[l].http_enabled THEN Url(ports[l][3]) ELSE NoUrl]

\* line 281: RawClient::new(&electrum_url, None) opens a TCP connection to
\* the port: it reaches whoever listens there, a child of this run or
\* another program, and is refused when nobody does.
RawClient_new(p) ==
    IF listener[p] \in Launch
    THEN {<<listener[p], depth[listener[p]]>>}
    ELSE {Refused, <<Third, 0>>}

\* lines 281-293: the connection attempt of the readiness loop.  On success
\* the loop breaks and every frame returns the handle; the outer frames drop
\* their own work directories.
with_conf_connect(l) ==
    /\ pc[l] = "connect"
    /\ \E peer \in RawClient_new(ports[l][1]) :
       IF peer # Refused
       THEN /\ handle' = [handle EXCEPT ![l] = NewElectrsD(l, peer)]
            /\ result' = [result EXCEPT ![l] = "Ok"]
            /\ pc' = [pc EXCEPT ![l] = "returned"]
            /\ tmpdirs' = [tmpdirs EXCEPT
                  ![l] = IF work_dir[l] = "Temporary" THEN 1 ELSE 0]
            /\ usedPorts' = [usedPorts EXCEPT ![l] = {}]
       ELSE /\ pc' = [pc EXCEPT ![l] = "sleep"]
            /\ UNCHANGED <<handle, result, tmpdirs, usedPorts>>
    /\ UNCHANGED <<callerVars, active, conf, fconf, depth, work_dir, staticdir, ports,
                   allocs, spawned, process, listener, upcalls,
                   pidReused, panicked>>
    /\ UNCHANGED handleVars

\* A readiness loop that gives up after a failed connection.
with_conf_sleep_timeout(l) ==
    /\ pc[l] = "sleep"
    /\ ReturnErr(l, "Io")
    /\ UNCHANGED <<callerVars, active, conf, fconf, depth, work_dir,
                   staticdir, ports, allocs, spawned, process,
                   listener, handle, upcalls, pidReused, panicked>>
    /\ UNCHANGED handleVars

\* line 283: the connection failed; sleep 500 ms and go round the loop.
with_conf_sleep(l) ==
    /\ pc[l] = "sleep"
    /\ pc' = [pc EXCEPT ![l] = "try_wait"]
    /\ UNCHANGED <<callerVars, active, conf, fconf, depth, work_dir, tmpdirs,
                   staticdir, ports, usedPorts, allocs, spawned, process,
                   listener, result, handle, upcalls, pidReused, panicked>>
    /\ UNCHANGED handleVars

\* ------------------------------------------------------------ environment
\* The child binds the ports of its arguments and starts to serve.
ChildListen(l) ==
    /\ process[l] = "starting"
    /\ LET ps == PortSet(ports[l]) IN
       /\ Cardinality(ps) = (IF fconf[l].http_enabled THEN 3 ELSE 2)
       /\ ps \subseteq FreePorts
       /\ listener' = [p \in Ports |-> IF p \in ps THEN l ELSE listener[p]]
    /\ process' = [process EXCEPT ![l] = "listening"]
    /\ UNCHANGED <<callerVars, active, conf, pidReused, panicked>>
    /\ UNCHANGED launchVars
    /\ UNCHANGED handleVars

\* The child exits: it could not bind, it crashed, or it was signalled.
ChildExit(l) ==
    /\ process[l] \in {"starting", "listening"}
    /\ process' = [process EXCEPT ![l] = "exited"]
    /\ listener' = [p \in Ports |-> IF listener[p] = l THEN Free ELSE listener[p]]
    /\ UNCHANGED <<callerVars, active, conf, pidReused, panicked>>
    /\ UNCHANGED launchVars
    /\ UNCHANGED handleVars

\* The pid of a child that was waited for is free again, and the operating
\* system gives it to a process that has nothing to do with the harness.
PidRecycle(l) ==
    /\ handle[l].present
    /\ dropped[l] = "no"
    /\ process[l] = "reaped"
    /\ ~pidReused[l]
    /\ pidReused' = [pidReused EXCEPT ![l] = TRUE]
    /\ UNCHANGED <<callerVars, active, conf, process, listener, panicked>>
    /\ UNCHANGED launchVars
    /\ UNCHANGED handleVars

\* ------------------------------------------------------------- the handle
\* What a signal sent to self.process.id() reaches: the child while it has
\* not been waited for (a zombie included), afterwards nothing (ESRCH) or
\* the process that got the pid.
PidTarget(l) ==
    IF process[l] # "reaped" THEN "child"
    ELSE IF pidReused[l] THEN "stranger" ELSE "ESRCH"

\* lines 330-337: inner_kill sends SIGINT to the pid.
inner_kill(l) == <<"SIGINT", PidTarget(l)>>

\* line 326: Child::kill sends SIGKILL, unless the exit status is already
\* cached, when it sends nothing and returns Ok.
Child_kill(l) ==
    IF process[l] = "reaped" THEN <<>> ELSE <<<<"SIGKILL", "child">>>>

\* A disposal that leaves the TempDir on disk, as TempDir::into_path would.
KillReturns_KeepTemp(l, who, r) ==
    /\ op' = [op EXCEPT ![l] = "none"]
    /\ UNCHANGED tmpdirs
    /\ IF who = "kill"
       THEN /\ killResults' = [killResults EXCEPT ![l] = Append(@, r)]
            /\ UNCHANGED dropped
       ELSE /\ dropped' = [dropped EXCEPT ![l] = r]
            /\ UNCHANGED killResults

\* kill() returns r to who called it: the caller of kill(), or drop, which
\* discards it (line 347) and then drops the fields, the TempDir among them.
KillReturns(l, who, r) ==
    /\ op' = [op EXCEPT ![l] = "none"]
    /\ IF who = "kill"
       THEN /\ killResults' = [killResults EXCEPT ![l] = Append(@, r)]
            /\ UNCHANGED <<dropped, tmpdirs>>
       ELSE /\ dropped' = [dropped EXCEPT ![l] = r]
            /\ tmpdirs' = [tmpdirs EXCEPT ![l] = 0]
            /\ UNCHANGED killResults

\* kill() that signals and returns without process.wait().
kill_no_wait(l, who) ==
    /\ handle[l].present
    /\ dropped[l] = "no"
    /\ op[l] = "none"
    /\ IF handle[l].work_dir = "Persistent"
       THEN /\ signals' = [signals EXCEPT ![l] = Append(@, inner_kill(l))]
            /\ KillReturns(l, who,
                   IF inner_kill(l)[2] = "ESRCH" THEN "Err" ELSE "Ok")
       ELSE /\ signals' = [signals EXCEPT ![l] = @ \o Child_kill(l)]
            /\ KillReturns(l, who, "Ok")
    /\ UNCHANGED <<callerVars, active, conf, fconf, pc, depth, work_dir, staticdir, ports,
                   usedPorts, allocs, spawned, process, listener, result,
                   handle, upcalls, pidReused, panicked>>

\* kill() that takes the Persistent arm for every work directory.
kill_always_graceful(l, who) ==
    /\ handle[l].present
    /\ dropped[l] = "no"
    /\ op[l] = "none"
    /\ signals' = [signals EXCEPT ![l] = Append(@, inner_kill(l))]
    /\ IF inner_kill(l)[2] = "ESRCH"
       THEN KillReturns(l, who, "Err")
       ELSE /\ op' = [op EXCEPT ![l] = who]
            /\ UNCHANGED <<killResults, dropped, tmpdirs>>
    /\ UNCHANGED <<callerVars, active, conf, fconf, pc, depth, work_dir, staticdir, ports,
                   usedPorts, allocs, spawned, process, listener, result,
                   handle, upcalls, pidReused, panicked>>

\* kill() with self.inner_kill().unwrap() in place of self.inner_kill()?.
kill_unwrap(l, who) ==
    /\ handle[l].present
    /\ dropped[l] = "no"
    /\ op[l] = "none"
    /\ IF handle[l].work_dir = "Persistent"
       THEN /\ signals' = [signals EXCEPT ![l] = Append(@, inner_kill(l))]
            /\ IF inner_kill(l)[2] = "ESRCH"
               THEN /\ KillReturns(l, who, "Err")
                    /\ panicked' = [panicked EXCEPT ![l] = TRUE]
               ELSE /\ op' = [op EXCEPT ![l] = who]
                    /\ UNCHANGED <<killResults, dropped, tmpdirs, panicked>>
       ELSE /\ signals' = [signals EXCEPT ![l] = @ \o Child_kill(l)]
            /\ KillReturns(l, who, "Ok")
            /\ UNCHANGED panicked
    /\ UNCHANGED <<callerVars, active, conf, fconf, pc, depth, work_dir, staticdir, ports,
                   usedPorts, allocs, spawned, process, listener, result,
                   handle, upcalls, pidReused>>

\* lines 316-328: kill(), up to its return or to the call of process.wait().
kill(l, who) ==
    /\ handle[l].present
    /\ dropped[l] = "no"
    /\ op[l] = "none"
    /\ IF handle[l].work_dir = "Persistent"
       THEN /\ signals' = [signals EXCEPT ![l] = Append(@, inner_kill(l))]
            /\ IF inner_kill(l)[2] = "ESRCH"
               THEN KillReturns(l, who, "Err")
               ELSE /\ op' = [op EXCEPT ![l] = who]
                    /\ UNCHANGED <<killResults, dropped, tmpdirs>>
       ELSE /\ signals' = [signals EXCEPT ![l] = @ \o Child_kill(l)]
            /\ KillReturns(l, who, "Ok")
    /\ UNCHANGED <<callerVars, active, conf, fconf, pc, depth, work_dir, staticdir, ports,
                   usedPorts, allocs, spawned, process, listener, result,
                   handle, upcalls, pidReused, panicked>>

\* lines 321-324: process.wait() returns once the child has exited, or at
\* once with the cached status; waitpid may also fail.
kill_wait(l) ==
    /\ op[l] # "none"
    /\ process[l] \in {"exited", "reaped"}
    /\ \/ /\ process' = [process EXCEPT ![l] = "reaped"]
          /\ KillReturns(l, op[l], "Ok")
       \/ /\ process[l] = "exited"
          /\ UNCHANGED process
          /\ KillReturns(l, op[l], "Err")
    /\ UNCHANGED <<callerVars, active, conf, fconf, pc, depth, work_dir, staticdir, ports,
                   usedPorts, allocs, spawned, listener, result, handle,
                   upcalls, signals, pidReused, panicked>>

\* the caller calls kill() on the handle
kill_call(l) ==
    /\ Len(killResults[l]) < MaxKills
    /\ kill(l, "kill")

\* A Drop that only drops the fields and never calls kill().
drop_forget(l) ==
    /\ handle[l].present
    /\ dropped[l] = "no"
    /\ op[l] = "none"
    /\ dropped' = [dropped EXCEPT ![l] = "Ok"]
    /\ tmpdirs' = [tmpdirs EXCEPT ![l] = 0]
    /\ UNCHANGED <<callerVars, active, conf, fconf, pc, depth, work_dir, staticdir, ports,
                   usedPorts, allocs, spawned, process, listener, result,
                   handle, upcalls, op, killResults, signals, pidReused,
                   panicked>>

\* lines 345-349: Drop for ElectrsD.
drop(l) == kill(l, "drop")

\* The caller, whose handle has been disposed and whose child is gone,
\* calls with_conf again with the same Conf.  What is on disk stays there.
relaunch(l) ==
    /\ handle[l].present
    /\ dropped[l] # "no"
    /\ process[l] \in {"exited", "reaped"}
    /\ launched[l] < MaxLaunches
    /\ launched' = [launched EXCEPT ![l] = @ + 1]
    /\ fconf' = [fconf EXCEPT ![l] = conf[l]]
    /\ pc' = [pc EXCEPT ![l] = "start"]
    /\ depth' = [depth EXCEPT ![l] = 1]
    /\ work_dir' = [work_dir EXCEPT ![l] = "none"]
    /\ ports' = [ports EXCEPT ![l] = <<NoPort, NoPort, NoPort>>]
    /\ usedPorts' = [usedPorts EXCEPT ![l] = {}]
    /\ allocs' = [allocs EXCEPT ![l] = 0]
    /\ spawned' = [spawned EXCEPT ![l] = 0]
    /\ process' = [process EXCEPT ![l] = "none"]
    /\ result' = [result EXCEPT ![l] = "none"]
    /\ handle' = [handle EXCEPT ![l] = NoHandle]
    /\ upcalls' = [upcalls EXCEPT ![l] = {}]
    /\ killResults' = [killResults EXCEPT ![l] = <<>>]
    /\ signals' = [signals EXCEPT ![l] = <<>>]
    /\ dropped' = [dropped EXCEPT ![l] = "no"]
    /\ pidReused' = [pidReused EXCEPT ![l] = FALSE]
    /\ UNCHANGED <<active, conf, tmpdirs, staticdir, listener, op, panicked,
                   p2p_socket, waiter, index, env, exe>>

NextLaunch ==
    \/ \E l \in active : with_conf_ibd(l)
    \/ \E l \in active : with_conf_work_dir(l)
    \/ \E l \in active : with_conf_spawn(l)
    \/ \E l \in active : with_conf_try_wait(l)
    \/ \E l \in active : with_conf_connect(l)
    \/ \E l \in active : with_conf_sleep(l)
    \/ \E l \in active : ChildListen(l)
    \/ \E l \in active : ChildExit(l)

NextHandle ==
    \/ \E l \in active : kill_call(l)
    \/ \E l \in active : kill_wait(l)
    \/ \E l \in active : drop(l)
    \/ \E l \in active : PidRecycle(l)

Next == NextLaunch \/ NextHandle

\* One launch and the life of the handle it returns.
Spec == Init /\ [][Next]_vars

\* The thread that called with_conf keeps running: every step of the launch
\* that can be taken is taken.
Fairness ==
    \A l \in Launch :
        /\ WF_vars(with_conf_ibd(l))
        /\ WF_vars(with_conf_work_dir(l))
        /\ WF_vars(with_conf_spawn(l))
        /\ WF_vars(with_conf_try_wait(l))
        /\ WF_vars(with_conf_connect(l))
        /\ WF_vars(with_conf_sleep(l))

\* The launch alone, with its thread running.  The HTTP endpoint adds a
\* third port and nothing to the control flow: it is left disabled here.
FairConfs == {c \in ConfSet : ~c.http_enabled}
FairInit == InitWith({1}, FairConfs) /\ CallerIdle
FairSpec == FairInit /\ [][NextLaunch]_vars /\ Fairness

\* Every child that was spawned eventually binds its ports and accepts
\* connections, or exits.
ChildSettles(l) ==
    /\ process[l] = "starting"
    /\ (ChildListen(l) \/ ChildExit(l))

ChildFairness == \A l \in Launch : WF_vars(ChildSettles(l))

\* The launch alone, with its thread running and children that settle.
TermSpec == FairInit /\ [][NextLaunch]_vars /\ Fairness /\ ChildFairness

\* Launch, use and disposal of the handle, and launch again with the same
\* configuration.
NextRelaunch ==
    \/ Next
    \/ \E l \in active : relaunch(l)

SpecRelaunch == Init /\ [][NextRelaunch]_vars

\* --------------------------------------------------------------- exe_path
\* std::env::var(name) is Ok only for a variable that is set to valid
\* Unicode; std::env::var_os(name) is Some for every variable that is set.
env_var(v) == IF v = "unicode" THEN "Ok" ELSE "Err"
env_var_os(v) == IF v = "unset" THEN "None" ELSE "Some"

\* lines 352-362
downloaded_exe_path(e) ==
    IF e.HAS_FEATURE /\ env_var_os(e.ELECTRSD_SKIP_DOWNLOAD) = "None"
    THEN <<"Some", "downloaded">>
    ELSE <<"None">>

\* lines 371-388; the value says where the path returned comes from.
exe_path(e) ==
    IF env_var(e.ELECTRS_EXEC) = "Ok" /\ env_var(e.ELECTRS_EXE) = "Ok"
    THEN <<"Err", "BothEnvVars">>
    ELSE IF env_var(e.ELECTRS_EXEC) = "Ok" THEN <<"Ok", "ELECTRS_EXEC">>
    ELSE IF env_var(e.ELECTRS_EXE) = "Ok" THEN <<"Ok", "ELECTRS_EXE">>
    ELSE IF downloaded_exe_path(e)[1] = "Some"
    THEN <<"Ok", downloaded_exe_path(e)[2]>>
    ELSE IF e.in_PATH THEN <<"Ok", "PATH">>
    ELSE <<"Err", "NoElectrsExecutableFound">>

NotCalled == <<"none">>

\* the caller calls exe_path()
exe_path_call ==
    /\ exe = NotCalled
    /\ exe' = exe_path(env)
    /\ UNCHANGED <<waiter, index, env, p2p_socket, launched, active, conf>>
    /\ UNCHANGED <<process, listener, pidReused, panicked>>
    /\ UNCHANGED launchVars
    /\ UNCHANGED handleVars

\* exe_path in every environment, before a launch.
InitExe ==
    /\ InitWith({1}, {DefaultConf})
    /\ waiter = NoWaiter
    /\ index = EmptyIndex
    /\ env \in EnvSet
    /\ exe = NotCalled

SpecExe == InitExe /\ [][exe_path_call]_vars

\* ------------------------------------------------------------ the waiters
\* ext.rs.  The waiters borrow the handle, so it is neither killed nor
\* dropped while one runs; the server at the other end of self.client indexes
\* blocks and transactions at its own pace, and any request may fail.

\* The server indexes the next block.
IndexBlock ==
    /\ index.tip < MaxHeight
    /\ index' = [index EXCEPT !.tip = @ + 1]
    /\ UNCHANGED <<waiter, env, exe, p2p_socket, launched, active, conf>>
    /\ UNCHANGED <<process, listener, pidReused, panicked>>
    /\ UNCHANGED launchVars
    /\ UNCHANGED handleVars

\* The server learns the transaction, and later adds it to the history of
\* the scripts it pays to.
IndexTx ==
    /\ index.tx # "indexed"
    /\ index' = [index EXCEPT
          !.tx = IF @ = "unknown" THEN "known" ELSE "indexed"]
    /\ UNCHANGED <<waiter, env, exe, p2p_socket, launched, active, conf>>
    /\ UNCHANGED <<process, listener, pidReused, panicked>>
    /\ UNCHANGED launchVars
    /\ UNCHANGED handleVars

\* self.client.block_header_raw(height): the header if the server has it,
\* or an error.
block_header_raw(h) == IF index.tip >= h THEN {"Ok", "Err"} ELSE {"Err"}

\* self.client.transaction_get(txid)
transaction_get == IF index.tx # "unknown" THEN {"Ok", "Err"} ELSE {"Err"}

\* self.client.script_get_history(script): an error, or the set of tx_hash
\* of the entries; the script may have other transactions.
script_get_history ==
    {<<"Err", {}>>}
        \cup {<<"Ok", other \cup (IF index.tx = "indexed" THEN {"txid"} ELSE {})>> :
                 other \in {{}, {"other"}}}

\* the variables no waiter touches
UNCHANGED_by_waiters ==
    /\ UNCHANGED <<index, env, exe, p2p_socket, launched, active, conf>>
    /\ UNCHANGED <<process, listener, pidReused, panicked>>
    /\ UNCHANGED launchVars
    /\ UNCHANGED handleVars

CanBorrow(l) ==
    /\ handle[l].present
    /\ dropped[l] = "no"
    /\ op[l] = "none"
    /\ waiter.pc = "idle"

\* ext.rs line 13: the caller calls wait_height(height).
wait_height_call(l, h) ==
    /\ CanBorrow(l)
    /\ waiter' = [NoWaiter EXCEPT !.fn = "wait_height", !.pc = "loop", !.arg = h]
    /\ UNCHANGED_by_waiters

\* wait_height that goes on fetching after a success.
wait_height_fetch_no_break ==
    /\ waiter.fn = "wait_height"
    /\ waiter.pc = "loop"
    /\ waiter.i < wait_height_attempts
    /\ \E r \in block_header_raw(waiter.arg) :
         waiter' = IF r = "Ok"
                   THEN [waiter EXCEPT !.i = @ + 1, !.got = "header"]
                   ELSE [waiter EXCEPT !.i = @ + 1, !.pc = "sleep"]
    /\ UNCHANGED_by_waiters

\* ext.rs lines 14-16: one iteration of the loop of wait_height.
wait_height_fetch ==
    /\ waiter.fn = "wait_height"
    /\ waiter.pc = "loop"
    /\ waiter.i < wait_height_attempts
    /\ \E r \in block_header_raw(waiter.arg) :
         waiter' = IF r = "Ok"
                   THEN [waiter EXCEPT !.i = @ + 1, !.pc = "returned",
                                       !.got = "header"]
                   ELSE [waiter EXCEPT !.i = @ + 1, !.pc = "sleep"]
    /\ UNCHANGED_by_waiters

\* ext.rs line 17: the sleep after a failure; after the last iteration the
\* loop ends and the function returns ().
wait_height_sleep ==
    /\ waiter.fn = "wait_height"
    /\ waiter.pc = "sleep"
    /\ waiter' = IF waiter.i = wait_height_attempts
                 THEN [waiter EXCEPT !.pc = "returned", !.got = "exhausted"]
                 ELSE [waiter EXCEPT !.pc = "loop"]
    /\ UNCHANGED_by_waiters

\* ext.rs line 23: the caller calls wait_tx(txid); outs is the number of
\* outputs of the transaction.
wait_tx_call(l, outs) ==
    /\ CanBorrow(l)
    /\ waiter' = [NoWaiter EXCEPT !.fn = "wait_tx", !.pc = "loop", !.arg = outs]
    /\ UNCHANGED_by_waiters

\* The search of the history satisfied with any entry.
HistoryHasTx_Any(history) == history # {}

\* ext.rs lines 34-39: is there an entry of the history with el.tx_hash == txid?
HistoryHasTx(history) == "txid" \in history

\* ext.rs lines 24-47, one iteration of the loop of wait_tx, the sleep apart.
wait_tx_attempt ==
    /\ waiter.fn = "wait_tx"
    /\ waiter.pc = "loop"
    /\ waiter.i < wait_tx_attempts
    /\ \E tg \in transaction_get :
         IF tg = "Err"
         THEN waiter' = [waiter EXCEPT !.i = @ + 1, !.pc = "sleep"]
         ELSE IF waiter.arg = 0
         THEN \* tx.output.first() is None
              waiter' = [waiter EXCEPT !.i = @ + 1, !.pc = "returned",
                                      !.got = "no_output"]
         ELSE \E h \in script_get_history :
                waiter' =
                  IF h[1] = "Err"
                  THEN \* .unwrap()
                       [waiter EXCEPT !.i = @ + 1, !.pc = "panicked",
                                      !.got = "panic"]
                  ELSE IF HistoryHasTx(h[2])
                  THEN [waiter EXCEPT !.i = @ + 1, !.pc = "returned",
                                      !.got = "history"]
                  ELSE \* continue 'main_loop
                       IF waiter.i + 1 = wait_tx_attempts
                       THEN [waiter EXCEPT !.i = @ + 1, !.pc = "returned",
                                           !.got = "exhausted"]
                       ELSE [waiter EXCEPT !.i = @ + 1, !.slept = FALSE]
    /\ UNCHANGED_by_waiters

\* ext.rs line 46: the sleep after a failed transaction_get.
wait_tx_sleep ==
    /\ waiter.fn = "wait_tx"
    /\ waiter.pc = "sleep"
    /\ waiter' = IF waiter.i = wait_tx_attempts
                 THEN [waiter EXCEPT !.pc = "returned", !.got = "exhausted"]
                 ELSE [waiter EXCEPT !.pc = "loop"]
    /\ UNCHANGED_by_waiters

\* A handle as a launch with the default configuration returns it: the first
\* child, listening on the ports it was given, and the client connected to it.
InitWait ==
    /\ active = {1}
    /\ conf = [l \in Launch |-> DefaultConf]
    /\ fconf = conf
    /\ pc = [l \in Launch |-> IF l = 1 THEN "returned" ELSE "unused"]
    /\ depth = [l \in Launch |-> IF l = 1 THEN 1 ELSE 0]
    /\ work_dir = [l \in Launch |-> IF l = 1 THEN "Temporary" ELSE "none"]
    /\ tmpdirs = [l \in Launch |-> IF l = 1 THEN 1 ELSE 0]
    /\ staticdir = [l \in Launch |-> FALSE]
    /\ ports = [l \in Launch |-> IF l = 1 THEN <<1, 2, NoPort>>
                                  ELSE <<NoPort, NoPort, NoPort>>]
    /\ usedPorts = [l \in Launch |-> {}]
    /\ allocs = [l \in Launch |-> IF l = 1 THEN 2 ELSE 0]
    /\ spawned = [l \in Launch |-> IF l = 1 THEN 1 ELSE 0]
    /\ process = [l \in Launch |-> IF l = 1 THEN "listening" ELSE "none"]
    /\ listener = [p \in Ports |-> IF p \in {1, 2} THEN 1 ELSE Free]
    /\ result = [l \in Launch |-> IF l = 1 THEN "Ok" ELSE "none"]
    /\ handle = [l \in Launch |->
                   IF l = 1
                   THEN [present |-> TRUE, process |-> <<1, 1>>,
                         client |-> <<1, 1>>, work_dir |-> "Temporary",
                         electrum_url |-> Url(1), esplora_url |-> NoUrl]
                   ELSE NoHandle]
    /\ upcalls = [l \in Launch |-> {}]
    /\ op = [l \in Launch |-> "none"]
    /\ killResults = [l \in Launch |-> <<>>]
    /\ signals = [l \in Launch |-> <<>>]
    /\ dropped = [l \in Launch |-> "no"]
    /\ pidReused = [l \in Launch |-> FALSE]
    /\ panicked = [l \in Launch |-> FALSE]
    /\ p2p_socket = TRUE
    /\ launched = [l \in Launch |-> IF l = 1 THEN 1 ELSE 0]
    /\ waiter = NoWaiter
    /\ index \in IndexSet
    /\ env = CleanEnv
    /\ exe = <<"Ok", "downloaded">>

NextWait ==
    \/ \E l \in active, h \in 0..MaxHeight : wait_height_call(l, h)
    \/ wait_height_fetch
    \/ wait_height_sleep
    \/ \E l \in active, outs \in {0, 1} : wait_tx_call(l, outs)
    \/ wait_tx_attempt
    \/ wait_tx_sleep
    \/ IndexBlock
    \/ IndexTx

\* The caller holds a handle and calls one waiter.
SpecWait == InitWait /\ [][NextWait]_vars

\* Two launches that run at the same time, each in the last attempt of a
\* launch with the default configuration.
ConcConfs == {[DefaultConf EXCEPT !.attempts = 0]}
InitConc == InitWith(Launch, ConcConfs) /\ CallerIdle
SpecConc == InitConc /\ [][NextLaunch]_vars

\* ============================================================ properties

BothDirs(c) == c.tmpdir /\ c.staticdir
UpstreamFailed(l) == result[l] \in {"TapyrusCoreRpc", "panic"}
Persistent(l) == handle[l].present /\ handle[l].work_dir = "Persistent"
Temporary(l) == handle[l].present /\ handle[l].work_dir = "Temporary"

\* C1: a launch whose configuration sets both tmpdir and staticdir never
\* spawns a child, never allocates a port and never creates a directory, and
\* when it returns, the upstream calls that precede the directory check
\* having succeeded, it returns BothDirsSpecified.
C1_BothDirsFailFast ==
    \A l \in active : BothDirs(conf[l]) =>
        /\ spawned[l] = 0
        /\ allocs[l] = 0
        /\ process[l] = "none"
        /\ tmpdirs[l] = 0 /\ ~staticdir[l]
        /\ ~handle[l].present
        /\ (pc[l] = "returned" /\ ~UpstreamFailed(l)
               => result[l] = "BothDirsSpecified")

C1_Witness ==
    \E l \in active : BothDirs(conf[l]) /\ result[l] = "BothDirsSpecified"

\* C2: with_conf fails with EarlyExit only after conf.attempts + 1 children
\* exited early, so never while the attempt number N is <= conf.attempts;
\* and once the child of such an attempt is reachable while the launch
\* polls, the launch returns the handle, unless the child stops being
\* reachable first or the exit check itself fails.
ReadyInBudget(l) ==
    /\ pc[l] \in {"try_wait", "connect", "sleep"}
    /\ process[l] = "listening"
    /\ depth[l] <= conf[l].attempts

C2_RetrySuccess ==
    /\ [](\A l \in active :
            result[l] = "EarlyExit" => spawned[l] = conf[l].attempts + 1)
    /\ \A l \in Launch :
         ReadyInBudget(l) ~>
            (result[l] = "Ok" \/ process[l] # "listening" \/ result[l] = "Io")

C2_Witness ==
    \E l \in active :
        /\ result[l] = "Ok"
        /\ depth[l] >= 2
        /\ depth[l] = conf[l].attempts
        /\ handle[l].client = handle[l].process

\* C3 (as specified): a launch a caller can make (conf.attempts is the
\* default) spawns the process at most conf.attempts times, and returns a
\* handle only from an attempt N <= conf.attempts.
C3_AtMostAttemptsSpawns ==
    \A l \in active : conf[l].attempts = DefaultAttempts =>
        /\ spawned[l] <= conf[l].attempts
        /\ (result[l] = "Ok" => depth[l] <= conf[l].attempts)

C5_Urls ==
    \A l \in active : handle[l].present =>
        /\ \E p \in Ports : handle[l].electrum_url = Url(p)
        /\ (handle[l].esplora_url # NoUrl <=> conf[l].http_enabled)
        /\ (conf[l].http_enabled =>
               \E p \in Ports : handle[l].esplora_url = Url(p))

C5_Witness ==
    \E l \in active :
        /\ handle[l].present
        /\ depth[l] >= 2
        /\ conf[l].http_enabled
        /\ handle[l].esplora_url # NoUrl

\* C6 (as specified): the client of every handle is connected to the child
\* process that the handle owns.
C6_ClientOwnChild ==
    \A l \in active : handle[l].present => handle[l].client = handle[l].process

\* C7: on a Persistent handle every kill() sends SIGINT and nothing else,
\* waits only after having sent it, and whenever it has returned Ok the
\* child has exited and has been waited for.
C7_PersistentKill ==
    \A l \in active : Persistent(l) =>
        /\ \A i \in 1..Len(signals[l]) : signals[l][i][1] = "SIGINT"
        /\ (op[l] # "none" => Len(signals[l]) = Len(killResults[l]) + 1)
        /\ \A i \in 1..Len(killResults[l]) :
              killResults[l][i] = "Ok" =>
                  /\ process[l] = "reaped"
                  /\ signals[l][i][2] # "ESRCH"

C7_Witness ==
    \E l \in active :
        /\ Persistent(l)
        /\ killResults[l] = <<"Ok">>
        /\ signals[l] = <<<<"SIGINT", "child">>>>
        /\ process[l] = "reaped"

\* C8: on a Temporary handle every kill() sends SIGKILL to the child and
\* returns Ok at once: it never sends SIGINT, never is in process.wait(),
\* and never reaps the child.
C8_TemporaryKill ==
    \A l \in active : Temporary(l) =>
        /\ op[l] = "none"
        /\ process[l] # "reaped"
        /\ \A i \in 1..Len(signals[l]) : signals[l][i] = <<"SIGKILL", "child">>
        /\ \A i \in 1..Len(killResults[l]) : killResults[l][i] = "Ok"
        /\ Len(signals[l]) =
              Len(killResults[l]) + (IF dropped[l] = "no" THEN 0 ELSE 1)

C8_Witness ==
    \E l \in active :
        /\ Temporary(l)
        /\ killResults[l] = <<"Ok">>
        /\ process[l] = "listening"

\* C9: after a first kill() that returned Ok, a second kill() does not
\* panic; it does not hang, for when it is in process.wait() the child has
\* already been waited for and wait returns at once; and it returns Ok, or,
\* on a Persistent handle, the error of a signal that found no process.
C9_SecondKill ==
    \A l \in active :
        handle[l].present /\ Len(killResults[l]) >= 1
                         /\ killResults[l][1] = "Ok" =>
            /\ ~panicked[l]
            /\ (op[l] = "kill" => process[l] = "reaped")
            /\ (Len(killResults[l]) >= 2 =>
                   \/ killResults[l][2] = "Ok"
                   \/ /\ Persistent(l)
                      /\ signals[l][2] = <<"SIGINT", "ESRCH">>)

C9_Witness ==
    \E l \in active :
        /\ Persistent(l)
        /\ killResults[l] = <<"Ok", "Err">>
        /\ ~panicked[l]

\* C10: once a handle is disposed, its drop has made one termination
\* attempt of its own, whether or not the caller called kill(), and whatever
\* that attempt returned, nothing panicked and the results the caller holds
\* are as they were.
C10_DropKills ==
    \A l \in active : handle[l].present /\ dropped[l] # "no" =>
        /\ Len(signals[l]) = Len(killResults[l]) + 1
        /\ ~panicked[l]
        /\ result[l] = "Ok"
        /\ op[l] = "none"

C10_Witness ==
    \E l \in active :
        /\ handle[l].present
        /\ dropped[l] = "Err"
        /\ killResults[l] = <<>>
        /\ Len(signals[l]) = 1

\* C11 (as specified): the child of a handle is terminated once: after a
\* kill() that returned Ok, no further signal is issued through the handle,
\* neither by another kill() nor by the disposal.
C11_TerminatedOnce ==
    \A l \in active :
        handle[l].present /\ Len(killResults[l]) >= 1
                         /\ killResults[l][1] = "Ok" =>
            Len(signals[l]) = 1

\* C12: the Persistent directory, once created, is on disk for ever, through
\* kill(), disposal and a later launch with the same staticdir, which runs
\* in it again; the TempDir of a handle is removed when the handle is
\* disposed.  So after disposal a work directory of the launch exists if and
\* only if the handle was Persistent.
WantsPersistent(c) == c.staticdir /\ ~c.tmpdir
DirOnDisk(l) == staticdir[l] \/ tmpdirs[l] > 0

C12_PersistentSurvives ==
    \A l \in active :
        /\ (Persistent(l) => staticdir[l] /\ tmpdirs[l] = 0)
        /\ (handle[l].present /\ dropped[l] # "no"
               => (DirOnDisk(l) <=> Persistent(l)))
        /\ (launched[l] > 1 /\ WantsPersistent(conf[l]) => staticdir[l])
        /\ (WantsPersistent(conf[l]) /\ handle[l].present => Persistent(l))
        /\ (staticdir[l] => WantsPersistent(conf[l]))

C12_Witness ==
    \E l \in active :
        /\ launched[l] = 2
        /\ Persistent(l)
        /\ dropped[l] = "Ok"
        /\ staticdir[l]

\* C13: wait_height(h) fetches the header at most 600 times; a fetch that
\* succeeds ends it at once; it ends otherwise only after 600 fetches have
\* failed, and then returns () like after a success, without a panic; so
\* when it has returned after fewer than 600 fetches the server had the
\* header of height h.
C13_WaitHeight ==
    waiter.fn = "wait_height" =>
        /\ waiter.i <= wait_height_attempts
        /\ waiter.pc \in {"loop", "sleep", "returned"}
        /\ (waiter.got = "header" =>
               waiter.pc = "returned" /\ index.tip >= waiter.arg)
        /\ (waiter.pc = "returned" =>
               \/ waiter.got = "header"
               \/ waiter.got = "exhausted" /\ waiter.i = wait_height_attempts)
        /\ (waiter.pc # "returned" => waiter.got = "none")

C13_Witness ==
    /\ waiter.fn = "wait_height"
    /\ waiter.pc = "returned"
    /\ waiter.got = "exhausted"
    /\ waiter.i = wait_height_attempts
    /\ index.tip < waiter.arg

\* C14 (as specified): when wait_tx has returned, the history of the script
\* of the first output has an entry for txid, or the transaction fetched has
\* no output.
C14_ReturnsOnlyIndexed ==
    waiter.fn = "wait_tx" /\ waiter.pc = "returned" =>
        \/ index.tx = "indexed"
        \/ waiter.arg = 0 /\ index.tx # "unknown"

\* C14 (amended): wait_tx returns before its 600 attempts are used up only
\* when the history of the script of the first output has an entry for txid,
\* or when the transaction fetched has no output; when the 600 attempts are
\* used up it returns whatever the server has indexed.
C14_ReturnsIndexedOrExhausted ==
    waiter.fn = "wait_tx" /\ waiter.pc = "returned" =>
        \/ waiter.got = "history" /\ index.tx = "indexed" /\ waiter.arg > 0
        \/ waiter.got = "no_output" /\ waiter.arg = 0 /\ index.tx # "unknown"
        \/ waiter.got = "exhausted" /\ waiter.i = wait_tx_attempts

C14_Witness ==
    /\ waiter.fn = "wait_tx"
    /\ waiter.pc = "returned"
    /\ waiter.got = "history"
    /\ waiter.i >= 2
    /\ waiter.i < wait_tx_attempts

\* C15 (as specified): a launch never ends by a panic: whatever fails
\* upstream, with_conf returns a value.
C15_LaunchNeverPanics ==
    \A l \in active :
        pc[l] = "returned" => result[l] # "panic" /\ ~panicked[l]

\* C16 (as specified): exe_path returns BothEnvVars whenever ELECTRS_EXEC and
\* ELECTRS_EXE are both set; otherwise the variable that is set, then the
\* downloaded executable if there is one, then the electrs of PATH, then
\* NoElectrsExecutableFound.
IsSet(v) == v # "unset"

C16_ExePathPrecedence ==
    exe # NotCalled =>
        exe = IF IsSet(env.ELECTRS_EXEC) /\ IsSet(env.ELECTRS_EXE)
              THEN <<"Err", "BothEnvVars">>
              ELSE IF IsSet(env.ELECTRS_EXEC) THEN <<"Ok", "ELECTRS_EXEC">>
              ELSE IF IsSet(env.ELECTRS_EXE) THEN <<"Ok", "ELECTRS_EXE">>
              ELSE IF env.HAS_FEATURE /\ ~IsSet(env.ELECTRSD_SKIP_DOWNLOAD)
              THEN <<"Ok", "downloaded">>
              ELSE IF env.in_PATH THEN <<"Ok", "PATH">>
              ELSE <<"Err", "NoElectrsExecutableFound">>

\* C17: the readiness loop is left in three ways only: the connection
\* succeeded and the handle is returned; the exit check saw that the child
\* had exited, and the launch retries or returns EarlyExit; the exit check
\* failed and its error is returned.  A connection that fails leads to the
\* sleep and back to the exit check, and leaves no trace in the result.
C17_NoTimeout ==
    [][\A l \in active :
        /\ (pc[l] = "connect" /\ pc'[l] # "connect" =>
               \/ pc'[l] = "returned" /\ result'[l] = "Ok" /\ handle'[l].present
               \/ pc'[l] = "sleep" /\ result'[l] = "none" /\ panicked'[l] = panicked[l])
        /\ (pc[l] = "sleep" /\ pc'[l] # "sleep" =>
               pc'[l] = "try_wait" /\ result'[l] = "none")
        /\ (pc[l] = "try_wait" /\ pc'[l] # "try_wait" =>
               \/ pc'[l] = "connect" /\ process[l] \in {"starting", "listening"}
               \/ pc'[l] = "returned" /\ result'[l] = "Io"
               \/ /\ process[l] = "exited"
                  /\ \/ pc'[l] = "returned" /\ result'[l] = "EarlyExit"
                     \/ pc'[l] = "start" /\ depth'[l] = depth[l] + 1)
      ]_vars

C17_Witness ==
    \E l \in active :
        /\ pc[l] = "sleep"
        /\ process[l] = "starting"
        /\ result[l] = "none"

\* C18: when every child that is spawned eventually exits or accepts
\* connections, with_conf returns; the attempts of the current frame are the
\* caller's less one for each retry, a retry is taken only from a frame whose
\* attempts are positive and takes one off, so they never go below zero.
C18_LaunchTerminates ==
    /\ \A l \in Launch : (pc[l] = "start") ~> (pc[l] = "returned")
    /\ [](\A l \in active :
            /\ fconf[l].attempts \in 0..conf[l].attempts
            /\ fconf[l].attempts = conf[l].attempts - (depth[l] - 1))
    /\ [][\A l \in active :
            depth'[l] # depth[l] =>
                /\ fconf[l].attempts > 0
                /\ fconf'[l].attempts = fconf[l].attempts - 1
                /\ depth'[l] = depth[l] + 1]_vars

C18_Witness ==
    \E l \in active :
        /\ pc[l] = "returned"
        /\ result[l] = "EarlyExit"
        /\ conf[l].attempts = DefaultAttempts
        /\ fconf[l].attempts = 0
        /\ spawned[l] = DefaultAttempts + 1

\* C19 (as specified): every attempt runs in a work directory of its own:
\* while attempt N is under way the launch has created N directories.
Attempting(l) == pc[l] \in {"spawn", "try_wait", "connect", "sleep"}
DirsCreated(l) == tmpdirs[l] + (IF staticdir[l] THEN 1 ELSE 0)

C19_FreshDirEveryKind ==
    \A l \in active : Attempting(l) => DirsCreated(l) = depth[l]

\* C19 (amended): a retry runs the launch sequence again from its start;
\* with a temporary work directory attempt N runs in a TempDir of its own,
\* the N-th of the launch, those of the earlier attempts being still on
\* disk; with a persistent one every attempt runs in the one staticdir.
C19_FreshTempDirOnRetry ==
    \A l \in active :
        /\ (Attempting(l) /\ work_dir[l] = "Temporary" =>
               tmpdirs[l] = depth[l] /\ ~staticdir[l])
        /\ (Attempting(l) /\ work_dir[l] = "Persistent" =>
               tmpdirs[l] = 0 /\ staticdir[l])
        /\ (Attempting(l) => work_dir[l] = DataDirOf(conf[l]))
        /\ (pc[l] \in {"start", "work_dir"} =>
               /\ work_dir[l] = "none"
               /\ spawned[l] = depth[l] - 1
               /\ process[l] \in {"none", "reaped"})

C19_Witness ==
    \E l \in active :
        /\ pc[l] = "connect"
        /\ depth[l] = 2
        /\ work_dir[l] = "Persistent"
        /\ DirsCreated(l) = 1

\* C20 (as specified): in wait_tx every attempt that does not end the wait is
\* followed by a sleep.
C20_SleepBetweenAttempts ==
    waiter.fn = "wait_tx" => waiter.slept

\* C21 (as specified): wait_tx never panics: a client call that fails leads
\* to another attempt or to the return, and at most 600 transactions are
\* fetched.
C21_WaitTxNeverPanics ==
    waiter.fn = "wait_tx" =>
        /\ waiter.pc \in {"loop", "sleep", "returned"}
        /\ waiter.got # "panic"
        /\ waiter.i <= wait_tx_attempts

\* C22 (as specified): a launch that has returned BothDirsSpecified has
\* issued no state-changing call to tapyrusd: it has requested no address
\* and mined no block.
C22_ConfErrorNoUpcall ==
    \A l \in active :
        pc[l] = "returned" /\ result[l] = "BothDirsSpecified" =>
            upcalls[l] = {}

\* C23 (as specified): every signal issued through a handle goes to the
\* child, which the handle owns and has not waited for: none is sent to the
\* process id after the child has been reaped.
C23_SignalsReachOwnChild ==
    \A l \in active :
        \A i \in 1..Len(signals[l]) : signals[l][i][2] = "child"

\* C24 (as specified): when with_conf has returned an error, no child of the
\* launch is running and no TempDir of the launch is on disk.
C24_ErrorLeavesNothing ==
    \A l \in active :
        pc[l] = "returned" /\ result[l] \notin {"Ok", "panic"} =>
            /\ process[l] \notin {"starting", "listening"}
            /\ tmpdirs[l] = 0
====
